---------------------------- MODULE Spec2Model ----------------------------
(***************************************************************************)
(* Model of src/ExpenseScreen.js: the expense ledger kept in an SQLite     *)
(* table, the async handlers addExpense / deleteExpense / loadExpenses /   *)
(* setup, the React state they write, and the pure aggregation             *)
(* getCategoryTotals.                                                      *)
(*                                                                         *)
(* Text is a sequence of one-character strings.  A JavaScript number is a  *)
(* record [k, v]: k = "fin" with v the value in hundredths, or k one of    *)
(* "inf", "ninf", "nan" with v = 0.                                        *)
(***************************************************************************)
EXTENDS Integers, Sequences, FiniteSets, TLC

VARIABLES
    amount,      \* useState('') : text of the amount field
    category,    \* useState('') : text of the category field
    note,        \* useState('') : text of the note field
    expenses,    \* useState([]) : the rows last handed to setExpenses
    chart,       \* getCategoryTotals() of the last render
    tableExists, \* whether the table "expenses" exists in the database
    table,       \* the rows of the table "expenses"
    seq,         \* sqlite_sequence entry of the table (AUTOINCREMENT)
    tasks,       \* the running async invocations, by invocation number
    nOps,        \* number of handler invocations started so far
    last,        \* history: "addExpense" once Add Expense was pressed,
                 \* "render" once the chart was rendered on its own
    assigned     \* history: the ids handed out by INSERT, in order

vars == <<amount, category, note, expenses, chart, tableExists, table, seq,
          tasks, nOps, last, assigned>>

-----------------------------------------------------------------------------
(* Bounds *)

MaxOps == 2      \* invocations of addExpense / deleteExpense that reach storage
MaxRecs == 3     \* length of the record sequences given to getCategoryTotals

-----------------------------------------------------------------------------
(* Text *)

Digits == <<"0", "1", "2", "3", "4", "5", "6", "7", "8", "9">>

IsDigit(c) == \E i \in 1..10 : Digits[i] = c

DigitVal(c) == (CHOOSE i \in 1..10 : Digits[i] = c) - 1

\* StrWhiteSpaceChar, over the alphabet of the sampled texts
IsSpace(c) == c = " "

RECURSIVE TrimStart(_)
TrimStart(s) ==
    IF s # <<>> /\ IsSpace(Head(s)) THEN TrimStart(Tail(s)) ELSE s

RECURSIVE TrimEnd(_)
TrimEnd(s) ==
    IF s # <<>> /\ IsSpace(s[Len(s)]) THEN TrimEnd(SubSeq(s, 1, Len(s) - 1))
    ELSE s

\* String.prototype.trim
Trim(s) == TrimEnd(TrimStart(s))

StartsWith(s, p) == Len(s) >= Len(p) /\ SubSeq(s, 1, Len(p)) = p

InfinityLit == <<"I", "n", "f", "i", "n", "i", "t", "y">>

-----------------------------------------------------------------------------
(* Numbers *)

Fin(v) == [k |-> "fin", v |-> v]
PosInf == [k |-> "inf", v |-> 0]
NegInf == [k |-> "ninf", v |-> 0]
NaN == [k |-> "nan", v |-> 0]

\* the longest prefix of s made of digits
RECURSIVE DigitRun(_)
DigitRun(s) ==
    IF s # <<>> /\ IsDigit(Head(s)) THEN <<Head(s)>> \o DigitRun(Tail(s))
    ELSE <<>>

RECURSIVE DigitsValue(_)
DigitsValue(d) ==
    IF d = <<>> THEN 0
    ELSE 10 * DigitsValue(SubSeq(d, 1, Len(d) - 1)) + DigitVal(d[Len(d)])

\* the fraction digits f as hundredths (texts carry at most two)
Hundredths(f) ==
    IF Len(f) = 0 THEN 0
    ELSE IF Len(f) = 1 THEN 10 * DigitVal(f[1])
    ELSE 10 * DigitVal(f[1]) + DigitVal(f[2])

\* parseFloat on an unsigned StrDecimalLiteral prefix (no exponent part:
\* the sampled texts hold no "e")
ParseUnsigned(s) ==
    IF StartsWith(s, InfinityLit) THEN PosInf
    ELSE LET ip == DigitRun(s)
             r  == SubSeq(s, Len(ip) + 1, Len(s))
             fp == IF r # <<>> /\ Head(r) = "." THEN DigitRun(Tail(r)) ELSE <<>>
         IN  IF ip = <<>> /\ fp = <<>> THEN NaN
             ELSE Fin(100 * DigitsValue(ip) + Hundredths(fp))

Negate(n) ==
    IF n.k = "fin" THEN Fin(0 - n.v)
    ELSE IF n.k = "inf" THEN NegInf
    ELSE IF n.k = "ninf" THEN PosInf
    ELSE n

\* the global parseFloat: leading white space is skipped, then an optional
\* sign, then the longest numeric prefix; NaN when there is none
parseFloat(text) ==
    LET s == TrimStart(text)
    IN  IF s # <<>> /\ Head(s) = "-" THEN Negate(ParseUnsigned(Tail(s)))
        ELSE IF s # <<>> /\ Head(s) = "+" THEN ParseUnsigned(Tail(s))
        ELSE ParseUnsigned(s)

isNaN(n) == n.k = "nan"

\* n <= 0 for a number n (false for NaN)
LeqZero(n) == n.k = "ninf" \/ (n.k = "fin" /\ n.v <= 0)

-----------------------------------------------------------------------------
(* JavaScript values and the plain object `totals` *)

\* null (and an absent text): no text equals it, texts hold one-character
\* strings only
Null == <<"null">>

Undefined == [k |-> "undefined", v |-> 0]
\* a function object (an inherited method of Object.prototype)
FunctionValue == [k |-> "function", v |-> 0]
\* an object (Object.prototype itself, read through __proto__)
ObjectValue == [k |-> "object", v |-> 0]
\* a non-empty string produced by + on a non-number
StringValue == [k |-> "string", v |-> 0]

IsNumber(x) == x.k \in {"fin", "inf", "ninf", "nan"}

\* ToBoolean
Truthy(x) ==
    IF x.k = "fin" THEN x.v # 0
    ELSE x.k \in {"inf", "ninf", "string", "function", "object"}

\* a + b: numeric addition of two numbers, string concatenation as soon as
\* one operand is a function, an object or a string
Plus(a, b) ==
    IF ~(IsNumber(a) /\ IsNumber(b)) THEN StringValue
    ELSE IF a.k = "nan" \/ b.k = "nan" THEN NaN
    ELSE IF a.k = "fin" /\ b.k = "fin" THEN Fin(a.v + b.v)
    ELSE IF a.k = "fin" THEN b
    ELSE IF b.k = "fin" THEN a
    ELSE IF a.k = b.k THEN a
    ELSE NaN

\* the data properties every plain object inherits from Object.prototype
ObjectPrototypeMethods ==
    { <<"c", "o", "n", "s", "t", "r", "u", "c", "t", "o", "r">>,
      <<"h", "a", "s", "O", "w", "n", "P", "r", "o", "p", "e", "r", "t", "y">>,
      <<"i", "s", "P", "r", "o", "t", "o", "t", "y", "p", "e", "O", "f">>,
      <<"p", "r", "o", "p", "e", "r", "t", "y", "I", "s", "E", "n", "u", "m", "e", "r", "a", "b", "l", "e">>,
      <<"t", "o", "L", "o", "c", "a", "l", "e", "S", "t", "r", "i", "n", "g">>,
      <<"t", "o", "S", "t", "r", "i", "n", "g">>,
      <<"v", "a", "l", "u", "e", "O", "f">> }

\* the accessor property Object.prototype.__proto__
ProtoKey == <<"_", "_", "p", "r", "o", "t", "o", "_", "_">>

\* a plain object: its own keys in creation order, and their values
EmptyObject == [keys |-> <<>>, val |-> <<>>]

HasOwn(o, key) == \E i \in 1..Len(o.keys) : o.keys[i] = key

OwnIndex(o, key) == CHOOSE i \in 1..Len(o.keys) : o.keys[i] = key

\* o[key]: the own property, else what the prototype chain gives
Get(o, key) ==
    IF HasOwn(o, key) THEN o.val[OwnIndex(o, key)]
    ELSE IF key = ProtoKey THEN ObjectValue
    ELSE IF key \in ObjectPrototypeMethods THEN FunctionValue
    ELSE Undefined

\* o[key] = x: the __proto__ setter ignores a value that is neither an
\* object nor null (only numbers and strings are ever written here); any
\* other key becomes or stays an own property
Put(o, key, x) ==
    IF key = ProtoKey THEN o
    ELSE IF HasOwn(o, key)
         THEN [o EXCEPT !.val = [o.val EXCEPT ![OwnIndex(o, key)] = x]]
         ELSE [keys |-> Append(o.keys, key), val |-> Append(o.val, x)]

\* the digits of the largest array index, 2^32 - 2
MaxArrayIndexDigits == <<"4", "2", "9", "4", "9", "6", "7", "2", "9", "4">>

\* a < b for two digit strings of the same length
RECURSIVE LexLess(_, _)
LexLess(a, b) ==
    IF a = <<>> THEN FALSE
    ELSE IF Head(a) # Head(b) THEN DigitVal(Head(a)) < DigitVal(Head(b))
    ELSE LexLess(Tail(a), Tail(b))

\* a < b for two canonical numeric strings
NumLess(a, b) == Len(a) < Len(b) \/ (Len(a) = Len(b) /\ LexLess(a, b))

\* a canonical numeric string naming an array index
IsArrayIndex(key) ==
    /\ key # <<>>
    /\ \A i \in 1..Len(key) : IsDigit(key[i])
    /\ (Len(key) = 1 \/ key[1] # "0")
    /\ ~NumLess(MaxArrayIndexDigits, key)

\* whether own key number i comes before own key number j in
\* OrdinaryOwnPropertyKeys order: array indices in ascending numeric order,
\* then the other keys in creation order
Before(o, i, j) ==
    LET a == IsArrayIndex(o.keys[i])
        b == IsArrayIndex(o.keys[j])
    IN  IF a /\ b THEN NumLess(o.keys[i], o.keys[j])
        ELSE IF a # b THEN a
        ELSE i < j

RECURSIVE OrderFrom(_, _)
OrderFrom(o, left) ==
    IF left = {} THEN <<>>
    ELSE LET i == CHOOSE i \in left : \A j \in left \ {i} : Before(o, i, j)
         IN  <<i>> \o OrderFrom(o, left \ {i})

\* Object.entries(o), as a sequence of <<key, value>>
ObjectEntries(o) ==
    LET ord == OrderFrom(o, 1..Len(o.keys))
    IN  [n \in 1..Len(ord) |-> <<o.keys[ord[n]], o.val[ord[n]]>>]

-----------------------------------------------------------------------------
(* getCategoryTotals *)

Other == <<"O", "t", "h", "e", "r">>

\* COLORS.pieChartColors.length
PaletteSize == 8

\* exp.category || "Other"
CategoryOf(exp) ==
    IF exp.category = Null \/ exp.category = <<>> THEN Other ELSE exp.category

\* exp.amount || 0
AmountOf(exp) == IF Truthy(exp.amount) THEN exp.amount ELSE Fin(0)

\* one pass of the forEach body over record exp
Accumulate(totals, exp) ==
    LET c  == CategoryOf(exp)
        t0 == IF ~Truthy(Get(totals, c)) THEN Put(totals, c, Fin(0)) ELSE totals
    IN  Put(t0, c, Plus(Get(t0, c), AmountOf(exp)))

RECURSIVE TotalsOf(_)
TotalsOf(recs) ==
    IF recs = <<>> THEN EmptyObject
    ELSE Accumulate(TotalsOf(SubSeq(recs, 1, Len(recs) - 1)), recs[Len(recs)])

getCategoryTotals(recs) ==
    LET e == ObjectEntries(TotalsOf(recs))
    IN  [i \in 1..Len(e) |->
            [name |-> e[i][1], amount |-> e[i][2], color |-> (i - 1) % PaletteSize]]

-----------------------------------------------------------------------------
(* The texts the user types *)

\* the texts a form field may hold when Add Expense is pressed
AmountTexts ==
    { <<>>, <<"5">>, <<"-", "5">>, <<"0">>, <<"x">>,
      <<" ", "1", ".", "5", "x">>, InfinityLit }

CategoryTexts == { <<>>, <<" ">>, <<" ", "F", " ">>, <<"G">> }

NoteTexts == { <<>>, <<" ">>, <<" ", "n">> }

\* the texts typed while storage requests are in flight
TypedAmounts == { <<"5">> }

TypedCategories == { <<" ", "F", " ">> }

TypedNotes == { <<" ", "n">> }

-----------------------------------------------------------------------------
(* The database: CREATE TABLE IF NOT EXISTS expenses (id INTEGER PRIMARY KEY
   AUTOINCREMENT, amount REAL NOT NULL, category TEXT NOT NULL, note TEXT) *)

Ids(rows) == { r.id : r \in rows }

MaxId(rows) ==
    IF rows = {} THEN 0 ELSE CHOOSE m \in Ids(rows) : \A i \in Ids(rows) : i <= m

Max(a, b) == IF a >= b THEN a ELSE b

\* NextId as a column declared without AUTOINCREMENT would give it
NextIdFromMaxRowid == MaxId(table) + 1

\* the rowid AUTOINCREMENT gives the next row: one more than the largest
\* rowid the table has ever held
NextId == Max(seq, MaxId(table)) + 1

\* INSERT INTO expenses (amount, category, note) VALUES (?, ?, ?)
InsertRow(params) ==
    [id |-> NextId, amount |-> params[1], category |-> params[2],
     note |-> params[3]]

\* DeleteRows with the comparison WHERE id >= ?
DeleteRowsFrom(id) == { r \in table : r.id < id }

\* DELETE FROM expenses WHERE id = ?
DeleteRows(id) == { r \in table : r.id # id }

\* OrderByIdDesc with the order reversed (ORDER BY id ASC)
RECURSIVE OrderByIdAsc(_)
OrderByIdAsc(rows) ==
    IF rows = {} THEN <<>>
    ELSE LET r == CHOOSE x \in rows : x.id = MaxId(rows)
         IN  OrderByIdAsc(rows \ {r}) \o <<r>>

\* ORDER BY id DESC
RECURSIVE OrderByIdDesc(_)
OrderByIdDesc(rows) ==
    IF rows = {} THEN <<>>
    ELSE LET r == CHOOSE x \in rows : x.id = MaxId(rows)
         IN  <<r>> \o OrderByIdDesc(rows \ {r})

\* SELECT * FROM expenses ORDER BY id DESC
SelectAll == OrderByIdDesc(table)

-----------------------------------------------------------------------------
(* The async invocations.  Each one is suspended at an await on one storage
   request: pc names the statement, "_done" once the engine has run it and
   the promise is settled but the continuation has not run yet. *)

NoArg == <<>>

\* rows: the result of getAllAsync; changes: the row count runAsync reports
Task(kind, pc, arg) ==
    [kind |-> kind, pc |-> pc, arg |-> arg, rows |-> <<>>, changes |-> 0]

Live == DOMAIN tasks

Without(t) == [u \in Live \ {t} |-> tasks[u]]

Started(t, task) == [u \in Live \cup {t} |-> IF u = t THEN task ELSE tasks[u]]

\* AmountRejected without the amountNumber <= 0 test
AmountRejectedNaNOnly(amountNumber) == isNaN(amountNumber)

\* the amount check of addExpense
AmountRejected(amountNumber) == isNaN(amountNumber) \/ LeqZero(amountNumber)

\* the category check of addExpense
CategoryRejected(trimmedCategory) == trimmedCategory = <<>>

\* NoteParam without the || null
NoteParamKeepsEmpty(trimmedNote) == trimmedNote

\* trimmedNote || null
NoteParam(trimmedNote) == IF trimmedNote = <<>> THEN Null ELSE trimmedNote

\* the chart of a render: the PieChart is rendered when expenses.length > 0
ChartOf(rows) == IF Len(rows) > 0 THEN getCategoryTotals(rows) ELSE <<>>

Row(id, a, c, n) == [id |-> id, amount |-> a, category |-> c, note |-> n]

\* what the database file holds when the screen mounts: nothing on the
\* first launch, else the table and sqlite_sequence earlier launches left
Persisted ==
    { [exists |-> FALSE, table |-> {}, seq |-> 0],
      [exists |-> TRUE, table |-> {Row(1, Fin(500), <<"F">>, Null)}, seq |-> 2] }

\* the database, and the screen as mounted: useEffect has called setup(),
\* which awaits the CREATE TABLE
Mounted ==
    /\ expenses = <<>>
    /\ chart = <<>>
    /\ \E db \in Persisted :
          /\ tableExists = db.exists
          /\ table = db.table
          /\ seq = db.seq
          /\ assigned = [i \in 1..db.seq |-> i]
    /\ tasks = [u \in {0} |-> Task("setup", "CREATE", NoArg)]
    /\ nOps = 0
    /\ last = "none"

Init ==
    /\ amount = <<>>
    /\ category = <<>>
    /\ note = <<>>
    /\ Mounted

\* the form already filled in with any of the texts
InitInputs ==
    /\ amount \in AmountTexts
    /\ category \in CategoryTexts
    /\ note \in NoteTexts
    /\ Mounted

\* onChangeText={setAmount}
SetAmount ==
    /\ \E text \in TypedAmounts : amount' = text
    /\ UNCHANGED <<category, note, expenses, chart, tableExists, table, seq,
                   tasks, nOps, last, assigned>>

\* onChangeText={setCategory}
SetCategory ==
    /\ \E text \in TypedCategories : category' = text
    /\ UNCHANGED <<amount, note, expenses, chart, tableExists, table, seq,
                   tasks, nOps, last, assigned>>

\* onChangeText={setNote}
SetNote ==
    /\ \E text \in TypedNotes : note' = text
    /\ UNCHANGED <<amount, category, expenses, chart, tableExists, table, seq,
                   tasks, nOps, last, assigned>>

\* onPress={addExpense}: the synchronous part, up to the await of the INSERT
addExpense ==
    /\ nOps < MaxOps
    /\ last' = "addExpense"
    /\ LET amountNumber    == parseFloat(amount)
           trimmedCategory == Trim(category)
           trimmedNote     == Trim(note)
       IN  IF AmountRejected(amountNumber) \/ CategoryRejected(trimmedCategory)
           THEN UNCHANGED <<tasks, nOps>>
           ELSE /\ nOps' = nOps + 1
                /\ tasks' = Started(nOps + 1,
                      Task("add", "INSERT",
                           <<amountNumber, trimmedCategory, NoteParam(trimmedNote)>>))
    /\ UNCHANGED <<amount, category, note, expenses, chart, tableExists, table,
                   seq, assigned>>

\* onPress={() => deleteExpense(item.id)} on a rendered row: up to the await
deleteExpense ==
    /\ nOps < MaxOps
    /\ \E i \in 1..Len(expenses) :
          tasks' = Started(nOps + 1, Task("delete", "DELETE", expenses[i].id))
    /\ nOps' = nOps + 1
    /\ UNCHANGED <<amount, category, note, expenses, chart, tableExists, table,
                   seq, last, assigned>>

\* the engine runs the CREATE TABLE IF NOT EXISTS of setup
ExecCreate ==
    /\ \E t \in Live :
          /\ tasks[t].pc = "CREATE"
          /\ tasks' = [tasks EXCEPT ![t].pc = "CREATE_done"]
    /\ tableExists' = TRUE
    /\ UNCHANGED <<amount, category, note, expenses, chart, table, seq, nOps,
                   last, assigned>>

\* the engine runs the INSERT of an addExpense
ExecInsert ==
    /\ tableExists
    /\ \E t \in Live :
          /\ tasks[t].pc = "INSERT"
          /\ table' = table \cup {InsertRow(tasks[t].arg)}
          /\ seq' = InsertRow(tasks[t].arg).id
          /\ assigned' = Append(assigned, InsertRow(tasks[t].arg).id)
          /\ tasks' = [tasks EXCEPT ![t].pc = "INSERT_done", ![t].arg = NoArg,
                                   ![t].changes = 1]
    /\ UNCHANGED <<amount, category, note, expenses, chart, tableExists, nOps, last>>

\* the engine runs the INSERT before the table exists: "no such table"
ExecInsertNoTable ==
    /\ ~tableExists
    /\ \E t \in Live :
          /\ tasks[t].pc = "INSERT"
          /\ tasks' = [tasks EXCEPT ![t].pc = "INSERT_failed", ![t].arg = NoArg]
    /\ UNCHANGED <<amount, category, note, expenses, chart, tableExists, table,
                   seq, nOps,
                   last, assigned>>

\* the engine runs the DELETE of a deleteExpense
ExecDelete ==
    /\ \E t \in Live :
          /\ tasks[t].pc = "DELETE"
          /\ table' = DeleteRows(tasks[t].arg)
          /\ tasks' = [tasks EXCEPT ![t].pc = "DELETE_done",
                                   ![t].changes = Cardinality(table) - Cardinality(DeleteRows(tasks[t].arg))]
    /\ UNCHANGED <<amount, category, note, expenses, chart, tableExists, seq,
                   nOps,
                   last, assigned>>

\* the engine runs the SELECT of a loadExpenses
ExecSelect ==
    /\ \E t \in Live :
          /\ tasks[t].pc = "SELECT"
          /\ tasks' = [tasks EXCEPT ![t].pc = "SELECT_done", ![t].rows = SelectAll]
    /\ UNCHANGED <<amount, category, note, expenses, chart, tableExists, table,
                   seq, nOps,
                   last, assigned>>

\* setup after await db.execAsync: await loadExpenses() issues the SELECT
ResumeSetup ==
    /\ \E t \in Live :
          /\ tasks[t].pc = "CREATE_done"
          /\ tasks' = [tasks EXCEPT ![t].pc = "SELECT"]
    /\ UNCHANGED <<amount, category, note, expenses, chart, tableExists, table,
                   seq, nOps,
                   last, assigned>>

\* addExpense after await db.runAsync: the form is cleared and loadExpenses()
\* issues the SELECT
ResumeAdd ==
    /\ \E t \in Live :
          /\ tasks[t].pc = "INSERT_done"
          /\ tasks' = [tasks EXCEPT ![t].pc = "SELECT", ![t].changes = 0]
    /\ amount' = <<>>
    /\ category' = <<>>
    /\ note' = <<>>
    /\ UNCHANGED <<expenses, chart, tableExists, table, seq, nOps,
                   last, assigned>>

\* addExpense after the INSERT was rejected: the exception ends it
ResumeAddFailed ==
    /\ \E t \in Live :
          /\ tasks[t].pc = "INSERT_failed"
          /\ tasks' = Without(t)
    /\ UNCHANGED <<amount, category, note, expenses, chart, tableExists, table,
                   seq, nOps,
                   last, assigned>>

\* deleteExpense after await db.runAsync: loadExpenses() issues the SELECT
ResumeDelete ==
    /\ \E t \in Live :
          /\ tasks[t].pc = "DELETE_done"
          /\ tasks' = [tasks EXCEPT ![t].pc = "SELECT", ![t].changes = 0]
    /\ UNCHANGED <<amount, category, note, expenses, chart, tableExists, table,
                   seq, nOps,
                   last, assigned>>

\* loadExpenses after await db.getAllAsync: setExpenses(rows), and the render
\* that follows
loadExpenses ==
    /\ \E t \in Live :
          /\ tasks[t].pc = "SELECT_done"
          /\ expenses' = tasks[t].rows
          /\ chart' = ChartOf(tasks[t].rows)
          /\ tasks' = Without(t)
    /\ UNCHANGED <<amount, category, note, tableExists, table, seq, nOps,
                   last, assigned>>

\* a render of the chart from the current expenses
Render ==
    /\ last # "render"
    /\ chart' = ChartOf(expenses)
    /\ last' = "render"
    /\ UNCHANGED <<amount, category, note, expenses, tableExists, table, seq,
                   tasks, nOps, assigned>>

Typing ==
    \/ SetAmount
    \/ SetCategory
    \/ SetNote

Handlers ==
    \/ addExpense
    \/ deleteExpense
    \/ ResumeSetup
    \/ ResumeAdd
    \/ ResumeAddFailed
    \/ ResumeDelete
    \/ loadExpenses

Engine ==
    \/ ExecCreate
    \/ ExecInsert
    \/ ExecInsertNoTable
    \/ ExecDelete
    \/ ExecSelect

Next == Typing \/ Handlers \/ Engine

\* the screen, from its mount on
Spec == Init /\ [][Next]_vars

NextInputs == Handlers \/ Engine

\* the handlers applied to a form holding any of the texts
SpecInputs == InitInputs /\ [][NextInputs]_vars

-----------------------------------------------------------------------------
(* getCategoryTotals on its own: any record sequence as the expenses *)

TotalsCategories ==
    { Null, <<>>, <<"F">>, <<"G">>, <<"7">>, <<"1", "2">>, Other,
      <<"c", "o", "n", "s", "t", "r", "u", "c", "t", "o", "r">>, ProtoKey }

TotalsAmounts == { Fin(500), Fin(150) }

\* the record sequences of length n, with the ids a listing would carry
RecordSeqs(n) ==
    { [i \in 1..n |-> Row(n - i + 1, f[i][1], f[i][2], Null)] :
        f \in [1..n -> TotalsAmounts \X TotalsCategories] }

InitTotals ==
    /\ amount = <<>>
    /\ category = <<>>
    /\ note = <<>>
    /\ \E n \in 0..MaxRecs : expenses \in RecordSeqs(n)
    /\ chart = <<>>
    /\ tableExists = FALSE
    /\ table = {}
    /\ seq = 0
    /\ assigned = <<>>
    /\ tasks = <<>>
    /\ nOps = 0
    /\ last = "none"

SpecTotals == InitTotals /\ [][Render]_vars

-----------------------------------------------------------------------------
(* Properties *)

\* n is a finite number
IsFinite(n) == n.k = "fin"

Blank(text) == \A i \in 1..Len(text) : text[i] = " "

\* r is text without its leading and trailing spaces
IsTrimOf(r, text) ==
    /\ \E i \in 1..Len(text) + 1 : \E j \in 0..Len(text) :
          /\ r = SubSeq(text, i, j)
          /\ \A k \in 1..Len(text) : (k < i \/ k > j) => text[k] = " "
    /\ r = <<>> \/ (r[1] # " " /\ r[Len(r)] # " ")

\* the amount text parses to a number > 0 and the category is not blank
ValidInput(a, c) ==
    /\ ~isNaN(parseFloat(a))
    /\ ~LeqZero(parseFloat(a))
    /\ ~Blank(c)

\* the amount is <= 0 or not numeric, or the category is blank
InvalidInput(a, c) ==
    \/ isNaN(parseFloat(a))
    \/ LeqZero(parseFloat(a))
    \/ Blank(c)

\* this step started an addExpense that reaches storage
AddStarted ==
    /\ nOps' = nOps + 1
    /\ nOps' \in DOMAIN tasks'
    /\ tasks'[nOps'].kind = "add"

\* this step is a press on Add Expense
AddPressed == (last # "addExpense" /\ last' = "addExpense") \/ AddStarted

\* this step is the engine running the request pc of invocation t
Ran(t, pc) ==
    /\ t \in DOMAIN tasks
    /\ t \in DOMAIN tasks'
    /\ tasks[t].pc = pc
    /\ tasks'[t].pc # pc

Range(s) == { s[i] : i \in 1..Len(s) }

StrictlyDescending(rows) ==
    \A i \in 1..Len(rows) : \A j \in 1..Len(rows) :
        i < j => rows[i].id > rows[j].id

\* C1, the press: Add Expense on a valid form starts an INSERT of the parsed
\* amount, the trimmed category and the trimmed note, null when that is empty
C1_Submitted ==
    (AddPressed /\ ValidInput(amount, category)) =>
        /\ AddStarted
        /\ tasks' = Started(nOps', tasks'[nOps'])
        /\ tasks'[nOps'].pc = "INSERT"
        /\ LET arg == tasks'[nOps'].arg
           IN  /\ arg[1] = parseFloat(amount)
               /\ IsTrimOf(arg[2], category)
               /\ IF Blank(note) THEN arg[3] = Null ELSE IsTrimOf(arg[3], note)

\* C1, the INSERT: the table, and the listing that follows, is the prior
\* collection plus exactly one record, with the submitted values and an id
\* above every prior id
C1_Inserted ==
    \A t \in DOMAIN tasks : Ran(t, "INSERT") /\ tableExists =>
        LET new == table' \ table
            arg == tasks[t].arg
        IN  /\ table \subseteq table'
            /\ Cardinality(new) = 1
            /\ \A r \in new :
                  /\ r.amount = arg[1]
                  /\ r.category = arg[2]
                  /\ r.note = arg[3]
                  /\ \A q \in table : r.id > q.id
            /\ Range(OrderByIdDesc(table')) = table \cup new
            /\ Len(OrderByIdDesc(table')) = Cardinality(table) + 1

\* C1: for every valid input and every prior ledger state, add followed by
\* listAll yields the prior collection plus exactly one new record holding
\* the submitted amount, the trimmed category, the trimmed note (null when
\* empty) and an id strictly greater than every prior id
C1_AddThenListAll == [][C1_Submitted /\ C1_Inserted]_vars

\* C1 witness: the INSERT of " F " with note " " has run on a non-empty
\* ledger and the new row carries "F", null and the greatest id
C1_Witness ==
    /\ category = <<" ", "F", " ">>
    /\ note = <<" ">>
    /\ \E t \in DOMAIN tasks : tasks[t].pc = "INSERT_done"
    /\ Cardinality(table) = 2
    /\ \E r \in table :
          /\ r.id = MaxId(table)
          /\ r.category = <<"F">>
          /\ r.note = Null
          /\ r.amount = parseFloat(amount)

\* C2: for every invalid input (amount <= 0, amount not numeric, or category
\* blank) and every prior ledger state, add followed by listAll yields the
\* same collection: nothing is inserted, changed or removed, and no storage
\* request is issued
C2_InvalidAddNoChange ==
    [][(AddPressed /\ InvalidInput(amount, category)) =>
          /\ UNCHANGED <<tasks, nOps, table, seq, expenses>>
          /\ OrderByIdDesc(table') = OrderByIdDesc(table)]_vars

\* C2 witness: Add Expense was pressed on an invalid, non-empty form over a
\* non-empty ledger, and nothing was started
C2_Witness ==
    /\ last = "addExpense"
    /\ amount # <<>>
    /\ InvalidInput(amount, category)
    /\ nOps = 0
    /\ table # {}

\* C3: add rejects an amount that is not finite with no persisted change,
\* so no row of the table ever carries a non-finite amount
C3_NonFiniteRejected == \A r \in table : IsFinite(r.amount)

\* C4, the DELETE and the listing after it: no record with the id, every
\* other record unchanged, the collection unchanged when the id is absent
C4_Deleted ==
    \A t \in DOMAIN tasks : Ran(t, "DELETE") =>
        LET id == tasks[t].arg
        IN  /\ table' = { r \in table : r.id # id }
            /\ id \notin Ids(table) => table' = table
            /\ id \notin Ids(Range(OrderByIdDesc(table')))
            /\ Range(OrderByIdDesc(table')) = { r \in table : r.id # id }
            /\ tasks'[t].pc = "DELETE_done"

\* C4, the re-read of deleteExpense(id) returns no record with that id
C4_Reread ==
    \A t \in DOMAIN tasks :
        tasks[t].kind = "delete" /\ tasks[t].pc = "SELECT_done" =>
            tasks[t].arg \notin Ids(Range(tasks[t].rows))

\* C4: for every id and every ledger state, delete(id) followed by listAll
\* returns no record with that id and every other prior record unchanged;
\* when no record has that id the collection is unchanged and nothing fails
C4_DeleteThenListAll == [][C4_Deleted]_vars /\ []C4_Reread

\* C4 witness: one deleteExpense(id) has re-read the table, and a second
\* DELETE of the same id has run and found no row
C4_Witness ==
    \E t \in DOMAIN tasks : \E u \in DOMAIN tasks :
        /\ tasks[t].kind = "delete"
        /\ tasks[t].pc = "SELECT_done"
        /\ tasks[u].kind = "delete"
        /\ tasks[u].pc = "DELETE_done"
        /\ tasks[u].changes = 0
        /\ tasks[u].arg = tasks[t].arg

\* C5: ids are unique and never reused: each id an INSERT hands out is
\* greater than every id handed out before, deleted or not
C5_IdsNeverReused ==
    /\ \A i \in 1..Len(assigned) : \A j \in 1..Len(assigned) :
          i < j => assigned[i] < assigned[j]
    /\ Ids(table) \subseteq Range(assigned)
    /\ Cardinality(Ids(table)) = Cardinality(table)

\* C5 witness: the newest record (id 2) was deleted and the next add got
\* id 3
C5_Witness ==
    /\ Len(assigned) >= 3
    /\ assigned[Len(assigned)] \in Ids(table)
    /\ assigned[Len(assigned) - 1] \notin Ids(table)

\* C8, the SELECT: the rows are the table, empty when the table is empty
C8_Selected ==
    \A t \in DOMAIN tasks : Ran(t, "SELECT") =>
        /\ Range(tasks'[t].rows) = table
        /\ Len(tasks'[t].rows) = Cardinality(table)
        /\ StrictlyDescending(tasks'[t].rows)

\* C8, in every state the rows fetched and the expenses list are sorted
C8_Sorted ==
    /\ StrictlyDescending(expenses)
    /\ \A t \in DOMAIN tasks : StrictlyDescending(tasks[t].rows)

\* C8: listAll returns the records in strictly descending id order, an empty
\* sequence when there are none, and the in-memory expenses list is sorted
\* by strictly descending id in every reachable state
C8_ListAllDescending == [][C8_Selected]_vars /\ []C8_Sorted

\* C8 witness: the expenses list holds two records
C8_Witness == Len(expenses) >= 2

\* the storage requests issued and not yet run by the engine
Outstanding ==
    { t \in DOMAIN tasks : tasks[t].pc \in {"CREATE", "INSERT", "DELETE", "SELECT"} }

\* C9: at most one storage request is outstanding at a time
C9_OneOutstandingRequest == Cardinality(Outstanding) <= 1

-----------------------------------------------------------------------------
(* Properties of getCategoryTotals *)

RECURSIVE FirstSeen(_)
\* the distinct categories of recs in the order they are first met
FirstSeen(recs) ==
    IF recs = <<>> THEN <<>>
    ELSE LET before == FirstSeen(SubSeq(recs, 1, Len(recs) - 1))
             c      == IF recs[Len(recs)].category \in {Null, <<>>}
                       THEN Other ELSE recs[Len(recs)].category
         IN  IF c \in Range(before) THEN before ELSE Append(before, c)

RECURSIVE SumWhere(_, _)
\* the sum of amount, in hundredths, over the records of recs whose
\* category is in cats
SumWhere(recs, cats) ==
    IF recs = <<>> THEN 0
    ELSE LET r == recs[Len(recs)]
             c == IF r.category \in {Null, <<>>} THEN Other ELSE r.category
         IN  SumWhere(SubSeq(recs, 1, Len(recs) - 1), cats)
             + (IF c \in cats THEN r.amount.v ELSE 0)

RECURSIVE SumChart(_)
SumChart(entries) ==
    IF entries = <<>> THEN Fin(0)
    ELSE Plus(SumChart(SubSeq(entries, 1, Len(entries) - 1)),
              entries[Len(entries)].amount)

\* C6: categoryTotals returns one entry per distinct category, in
\* first-seen-category order, whatever the labels are
C6_FirstSeenOrder ==
    last = "render" =>
        [i \in 1..Len(chart) |-> chart[i].name] = FirstSeen(expenses)

\* C7: the totals sum to the sum of amount over all records, and each
\* entry's total is the sum of amount over the records of its category
C7_TotalsSum ==
    last = "render" =>
        /\ SumChart(chart) = Fin(SumWhere(expenses, Range(FirstSeen(expenses))))
        /\ \A i \in 1..Len(chart) :
              chart[i].amount = Fin(SumWhere(expenses, {chart[i].name}))

=============================================================================
